---- MODULE Spec2Model ----
(***************************************************************************)
(* Model of the fastapi-authentication gateway:                            *)
(*   app/core/dependency_injector.py   DependencyInjector                  *)
(*   app/api/dependencies/auth.py      the FastAPI dependencies            *)
(*   app/api/models/auth_models.py     the pydantic request/response models*)
(*   app/api/graphql/resolvers/user_resolvers.py   the nine resolvers      *)
(*   app/services/aws/cognito/auth.py  CognitoService                      *)
(*                                                                         *)
(* Library calls are modelled by the contract the code uses them under:    *)
(* Depends(f) calls f before the resolver body, Security(http_bearer)      *)
(* yields the credentials or None, client.post either returns a response   *)
(* or raises, response.json() yields the parsed body or raises ValueError. *)
(* A task runs without interruption between two suspension points; the     *)
(* only suspension point of a call is the HTTP post.                       *)
(***************************************************************************)
EXTENDS Integers, Sequences, FiniteSets, TLC

VARIABLES
    _services,   \* DependencyInjector._services : interface -> <<implementation, scope>>
    _factories,  \* DependencyInjector._factories: interface -> factory
    _scopes,     \* DependencyInjector._scopes   : interface -> cached instance
    created,     \* number of objects constructed so far (object identities)
    resolved,    \* results of the resolve() calls made on the injector directly
    arrived,     \* per call: the interface it is about to resolve, or None
    applied,     \* the last direct call of a function: arguments and result
    cognito,     \* the CognitoService objects: id -> fields
    task,        \* the inbound calls being handled: slot -> call state
    started      \* number of calls begun

vars == <<_services, _factories, _scopes, created, resolved, arrived, applied, cognito,
          task, started>>

(***************************************************************************)
(* Bounds                                                                  *)
(***************************************************************************)
MaxCalls == 2       \* calls begun in one run
MaxResolves == 2    \* direct resolve() calls in one run of the registry

Tasks == {"t1", "t2"}

(***************************************************************************)
(* Python values                                                           *)
(***************************************************************************)
None == "None"
EmptyDict == [k \in {} |-> None]
str(v) == v                       \* f"{v}": str(None) is the text None

X10 == "xxxxxxxxxx"
X50 == X10 \o X10 \o X10 \o X10 \o X10
X51 == X50 \o "x"
X129 == X50 \o X50 \o X10 \o X10 \o "xxxxxxxxx"

(***************************************************************************)
(* pydantic: field types and model construction (auth_models.py)           *)
(***************************************************************************)
constr(min_length, max_length) ==
    [type |-> "constr", min_length |-> min_length, max_length |-> max_length,
     bounded |-> TRUE, required |-> TRUE, default |-> None]
constr_min(min_length) ==        \* constr(min_length=...) with no max_length
    [type |-> "constr", min_length |-> min_length, max_length |-> min_length,
     bounded |-> FALSE, required |-> TRUE, default |-> None]
constr_max(max_length) ==        \* constr(max_length=...) with no min_length
    [type |-> "constr", min_length |-> 0, max_length |-> max_length,
     bounded |-> TRUE, required |-> TRUE, default |-> None]
Str == [type |-> "str", required |-> TRUE, default |-> None]
StrDefault(d) == [type |-> "str", required |-> FALSE, default |-> d]
EmailStr == [type |-> "EmailStr", required |-> TRUE, default |-> None]
DictStrStr == [type |-> "Dict", required |-> TRUE, default |-> None]
Optional(field) == [field EXCEPT !.required = FALSE, !.type = "Optional_" \o field.type]

\* An e-mail address is a tuple of characters; it is well formed when it has
\* one "@" with a non-empty local part and a dotted domain after it.
AtPositions(e) == {i \in 1..Len(e) : e[i] = "@"}
EmailWellFormed(e) ==
    /\ Cardinality(AtPositions(e)) = 1
    /\ LET at == CHOOSE i \in AtPositions(e) : TRUE
       IN /\ at > 1
          /\ \E d \in (at + 2)..(Len(e) - 1) : e[d] = "."

LengthOK(field, v) ==
    /\ Len(v) >= field.min_length
    /\ field.bounded => Len(v) <= field.max_length

\* Does value v satisfy the declared field?  A value is a string, None, an
\* e-mail tuple, or (for attributes) a tagged list/dict.
FieldOK(field, v) ==
    CASE field.type = "constr" -> v # None /\ LengthOK(field, v)
      [] field.type = "Optional_constr" -> v = None \/ LengthOK(field, v)
      [] field.type = "str" -> v # None
      [] field.type = "Optional_str" -> TRUE
      [] field.type = "EmailStr" -> EmailWellFormed(v)
      [] field.type = "Dict" -> v.type = "dict"

\* The fields of `schema` that make Model(**kwargs) raise ValidationError.
FieldErrors(schema, kwargs) ==
    {f \in DOMAIN schema :
        IF f \in DOMAIN kwargs THEN ~FieldOK(schema[f], kwargs[f])
                               ELSE schema[f].required}

\* The model instance as .dict(): declared fields only, defaults filled in.
ModelDict(schema, kwargs) ==
    [f \in DOMAIN schema |-> IF f \in DOMAIN kwargs THEN kwargs[f] ELSE schema[f].default]

LoginRequest == [username |-> constr(1, 50), password |-> constr(6, 128)]
SignUpRequest ==
    [username |-> constr(1, 50), password |-> constr(6, 128), email |-> EmailStr,
     phone_number |-> Optional(constr_max(15)),
     given_name |-> Optional(constr_max(50)),
     family_name |-> Optional(constr_max(50))]
ConfirmSignUpRequest == [username |-> constr(1, 50), confirmation_code |-> constr(6, 10)]
ResendConfirmationCodeRequest == [username |-> constr(1, 50)]
TokenRefreshRequest == [refresh_token |-> constr_min(1)]
ChangePasswordRequest ==
    [access_token |-> constr_min(1),
     previous_password |-> constr(6, 128),
     proposed_password |-> constr(6, 128)]
ForgotPasswordRequest == [username |-> constr(1, 50)]
ConfirmForgotPasswordRequest ==
    [username |-> constr(1, 50), confirmation_code |-> constr(6, 10),
     new_password |-> constr(6, 128)]
UpdateUserAttributesRequest == [access_token |-> constr_min(1), attributes |-> DictStrStr]

LoginResponse ==
    [access_token |-> Str, token_type |-> StrDefault("Bearer"),
     refresh_token |-> Optional(StrDefault(None)), id_token |-> Optional(StrDefault(None))]
SignUpResponse == [message |-> Str, user_sub |-> Optional(StrDefault(None))]
TokenRefreshResponse ==
    [access_token |-> Str, token_type |-> StrDefault("Bearer"),
     id_token |-> Optional(StrDefault(None))]
ConfirmSignUpResponse == [message |-> Str]
ResendConfirmationCodeResponse == [message |-> Str]
ChangePasswordResponse == [message |-> Str]
ForgotPasswordResponse == [message |-> Str]
ConfirmForgotPasswordResponse == [message |-> Str]
UpdateUserAttributesResponse == [message |-> Str]

(***************************************************************************)
(* Errors (core/error_codes.py, core/exceptions.py)                        *)
(***************************************************************************)
ErrorDescriptor(code, message, http_status) ==
    [code |-> code, message |-> message, http_status |-> http_status]

ErrorCodes ==
    [INTERNAL_ERROR |-> ErrorDescriptor("1000",
        "An unexpected error occurred. Please try again later.", "500"),
     INVALID_REQUEST |-> ErrorDescriptor("1001",
        "The request was invalid. Please check your input.", "400"),
     SERVICE_UNAVAILABLE |-> ErrorDescriptor("1002",
        "Service is temporarily unavailable. Please try again later.", "503"),
     AUTHENTICATION_FAILED |-> ErrorDescriptor("2000",
        "Authentication failed. Please check your credentials.", "401"),
     EMAIL_NOT_CONFIRMED |-> ErrorDescriptor("2001",
        "Your email address has not been confirmed.", "403"),
     USER_NOT_FOUND |-> ErrorDescriptor("2002",
        "The specified user does not exist.", "404"),
     PASSWORD_TOO_SHORT |-> ErrorDescriptor("2003",
        "The password provided is too short.", "400"),
     PASSWORD_INCORRECT |-> ErrorDescriptor("2004",
        "The password provided is incorrect.", "401"),
     TOKEN_EXPIRED |-> ErrorDescriptor("2005",
        "The session has expired. Please log in again.", "401"),
     CODE_MISMATCH |-> ErrorDescriptor("2006",
        "The confirmation code does not match.", "400"),
     UNAUTHORIZED |-> ErrorDescriptor("2007",
        "You are not authorized to perform this action.", "401"),
     USER_ALREADY_EXISTS |-> ErrorDescriptor("2008",
        "A user with this information already exists.", "409")]

\* The class attribute error_descriptor of AppException and its subclasses.
error_descriptor ==
    [AppException |-> ErrorCodes.INTERNAL_ERROR,
     InternalErrorException |-> ErrorCodes.INTERNAL_ERROR,
     InvalidRequestException |-> ErrorCodes.INVALID_REQUEST,
     ServiceUnavailableException |-> ErrorCodes.SERVICE_UNAVAILABLE,
     AuthenticationFailedException |-> ErrorCodes.AUTHENTICATION_FAILED,
     EmailNotConfirmedException |-> ErrorCodes.EMAIL_NOT_CONFIRMED,
     UserNotFoundException |-> ErrorCodes.USER_NOT_FOUND,
     PasswordTooShortException |-> ErrorCodes.PASSWORD_TOO_SHORT,
     PasswordIncorrectException |-> ErrorCodes.PASSWORD_INCORRECT,
     TokenExpiredException |-> ErrorCodes.TOKEN_EXPIRED,
     CodeMismatchException |-> ErrorCodes.CODE_MISMATCH,
     UnauthorizedException |-> ErrorCodes.UNAUTHORIZED,
     UserAlreadyExistsException |-> ErrorCodes.USER_ALREADY_EXISTS]

\* AppException.__init__ of class `class` with no descriptor argument: the
\* HTTPException it builds.
AppException(class, support_code) ==
    [status_code |-> error_descriptor[class].http_status,
     detail |-> [code |-> error_descriptor[class].code,
                 message |-> error_descriptor[class].message,
                 support_code |-> support_code]]

\* AppException.__init__(error_descriptor, support_code) of class `class`:
\* `error_descriptor or self.error_descriptor`.  NoDescriptor stands for the
\* argument left at None; an ErrorDescriptor object is always true.
NoDescriptor == ErrorDescriptor(None, None, None)

\* Variant: the descriptor of the class wins over the argument.
AppException_init_class_first(class, error_descriptor_argument, support_code) ==
    [status_code |-> error_descriptor[class].http_status,
     detail |-> [code |-> error_descriptor[class].code,
                 message |-> error_descriptor[class].message,
                 support_code |-> support_code]]

AppException_init(class, error_descriptor_argument, support_code) ==
    LET descriptor == IF error_descriptor_argument = NoDescriptor
                      THEN error_descriptor[class]
                      ELSE error_descriptor_argument
    IN [status_code |-> descriptor.http_status,
        detail |-> [code |-> descriptor.code,
                    message |-> descriptor.message,
                    support_code |-> support_code]]

\* isinstance(exception, AppException), for an exception given by its class.
IsAppException(exception) == exception \in DOMAIN error_descriptor

(***************************************************************************)
(* DependencyInjector (dependency_injector.py)                             *)
(***************************************************************************)
SINGLETON == "singleton"
TRANSIENT == "transient"
SCOPED == "scoped"
ServiceScope == {SINGLETON, TRANSIENT, SCOPED}

NoInstance == [id |-> 0, class |-> None]
\* implementation() / factory(): a new object, with the next identity.
New(class) == [id |-> created + 1, class |-> class]

Returned(instance, scopes, n) ==
    [raised |-> None, value |-> instance, scopes |-> scopes, created |-> n]
Raised(exception) ==
    [raised |-> exception, value |-> NoInstance, scopes |-> _scopes, created |-> created]

\* Variant: the singleton branch does not store the instance it creates.
resolve_service_uncached(interface) ==
    LET implementation == _services[interface][1]
        scope == _services[interface][2]
        instance == New(implementation)
    IN IF scope = SINGLETON /\ interface \in DOMAIN _scopes
       THEN Returned(_scopes[interface], _scopes, created)
       ELSE Returned(instance, _scopes, created + 1)

\* Variant: every scope is served from the instance cache.
resolve_service_cache_all(interface) ==
    LET implementation == _services[interface][1]
        instance == New(implementation)
    IN IF interface \in DOMAIN _scopes
       THEN Returned(_scopes[interface], _scopes, created)
       ELSE Returned(instance,
                     [i \in DOMAIN _scopes \cup {interface} |->
                         IF i = interface THEN instance ELSE _scopes[i]],
                     created + 1)

\* Variant: the singleton branch does not look in the cache before creating.
resolve_service_unchecked(interface) ==
    LET implementation == _services[interface][1]
        instance == New(implementation)
    IN Returned(instance,
                IF _services[interface][2] = SINGLETON
                THEN [i \in DOMAIN _scopes \cup {interface} |->
                         IF i = interface THEN instance ELSE _scopes[i]]
                ELSE _scopes,
                created + 1)

\* The branch of resolve() for an interface in _services.
resolve_service(interface) ==
    LET implementation == _services[interface][1]
        scope == _services[interface][2]
        instance == New(implementation)
    IN IF scope = SINGLETON
       THEN IF interface \in DOMAIN _scopes
            THEN Returned(_scopes[interface], _scopes, created)
            ELSE Returned(instance,
                          [i \in DOMAIN _scopes \cup {interface} |->
                              IF i = interface THEN instance ELSE _scopes[i]],
                          created + 1)
       ELSE IF scope = SCOPED
            THEN Returned(instance, _scopes, created + 1)
            ELSE Returned(instance, _scopes, created + 1)

\* The branch of resolve() for an interface in _factories.
resolve_factory(interface) ==
    Returned(New(_factories[interface]), _scopes, created + 1)

\* Variant: a factory registration is looked up before a service one.
resolve_factory_first(interface) ==
    IF interface \in DOMAIN _factories THEN resolve_factory(interface)
    ELSE IF interface \in DOMAIN _services THEN resolve_service(interface)
    ELSE Raised("KeyError")

\* Variant: an interface with no registration resolves to an empty default.
resolve_or_default(interface) ==
    IF interface \in DOMAIN _services THEN resolve_service(interface)
    ELSE IF interface \in DOMAIN _factories THEN resolve_factory(interface)
    ELSE Returned(NoInstance, _scopes, created)

resolve(interface) ==
    IF interface \in DOMAIN _services THEN resolve_service(interface)
    ELSE IF interface \in DOMAIN _factories THEN resolve_factory(interface)
    ELSE Raised("KeyError")

\* Variant: the service is registered with singleton lifetime.
ProductionServices_singleton ==
    [i \in {"CognitoServiceInterface"} |-> <<"CognitoService", SINGLETON>>]

\* api/dependencies/auth.py: injector.register(CognitoServiceInterface,
\* CognitoService, scope=ServiceScope.SCOPED) on a new DependencyInjector.
ProductionServices ==
    [i \in {"CognitoServiceInterface"} |-> <<"CognitoService", SCOPED>>]

(***************************************************************************)
(* CognitoService (services/aws/cognito/auth.py)                           *)
(***************************************************************************)
Operations ==
    {"login", "sign_up", "confirm_sign_up", "resend_confirmation_code",
     "refresh_token", "change_password", "forgot_password",
     "confirm_forgot_password", "update_user_attributes"}

\* The decorators each operation is declared under (auth.py 286-329).
Binding(op) ==
    CASE op = "login" ->
           [auth |-> "basic", path |-> "login",
            request_model |-> LoginRequest, response_model |-> LoginResponse]
      [] op = "sign_up" ->
           [auth |-> "basic", path |-> "signUp",
            request_model |-> SignUpRequest, response_model |-> SignUpResponse]
      [] op = "confirm_sign_up" ->
           [auth |-> "basic", path |-> "confirmSignUp",
            request_model |-> ConfirmSignUpRequest,
            response_model |-> ConfirmSignUpResponse]
      [] op = "resend_confirmation_code" ->
           [auth |-> "basic", path |-> "resendConfirmationCode",
            request_model |-> ResendConfirmationCodeRequest,
            response_model |-> ResendConfirmationCodeResponse]
      [] op = "refresh_token" ->
           [auth |-> "basic", path |-> "refreshToken",
            request_model |-> TokenRefreshRequest,
            response_model |-> TokenRefreshResponse]
      [] op = "change_password" ->
           [auth |-> "bearer", path |-> "changePassword",
            request_model |-> ChangePasswordRequest,
            response_model |-> ChangePasswordResponse]
      [] op = "forgot_password" ->
           [auth |-> "basic", path |-> "forgotPassword",
            request_model |-> ForgotPasswordRequest,
            response_model |-> ForgotPasswordResponse]
      [] op = "confirm_forgot_password" ->
           [auth |-> "basic", path |-> "confirmForgotPassword",
            request_model |-> ConfirmForgotPasswordRequest,
            response_model |-> ConfirmForgotPasswordResponse]
      [] op = "update_user_attributes" ->
           [auth |-> "bearer", path |-> "updateUserAttributes",
            request_model |-> UpdateUserAttributesRequest,
            response_model |-> UpdateUserAttributesResponse]

\* The dataclass fields after __post_init__: the client is always there, open.
CognitoService(base_url, basic_credentials) ==
    [base_url |-> base_url, basic_credentials |-> basic_credentials,
     access_token |-> None, client_is_closed |-> FALSE, close_called |-> FALSE]

set_access_token(self, access_token) == [self EXCEPT !.access_token = access_token]

\* Variant: every key that names a password is masked.
log_sensitive_data_remover_wide(data) ==
    [key \in DOMAIN data |->
        IF key \in {"password", "access_token", "refresh_token", "id_token",
                    "new_password", "previous_password", "proposed_password"}
        THEN "***" ELSE data[key]]

\* Variant: only the password and the access token are masked.
log_sensitive_data_remover_partial(data) ==
    [key \in DOMAIN data |->
        IF key \in {"password", "access_token"} THEN "***" ELSE data[key]]

sensitive_keys == {"password", "access_token", "refresh_token", "id_token"}
log_sensitive_data_remover(data) ==
    [key \in DOMAIN data |-> IF key \in sensitive_keys THEN "***" ELSE data[key]]

\* Variant: the bearer decorator builds the header of the basic one.
bearer_auth_as_basic(self) ==
    [Authorization |-> "Basic " \o str(self.basic_credentials),
     ContentType |-> "application/x-www-form-urlencoded"]

bearer_auth(self) ==
    [Authorization |-> "Bearer " \o str(self.access_token),
     ContentType |-> "application/x-www-form-urlencoded"]
basic_auth(self) ==
    [Authorization |-> "Basic " \o str(self.basic_credentials),
     ContentType |-> "application/x-www-form-urlencoded"]
Headers(self, op) ==
    IF Binding(op).auth = "bearer" THEN bearer_auth(self) ELSE basic_auth(self)

\* One record handed to a logging sink: the level, the message, and the
\* dictionary or text interpolated into it.
Entry(level, msg, data, text) ==
    [level |-> level, msg |-> msg, data |-> data, text |-> text]

Return(value) == [raised |-> None, value |-> value]
Raise(exception) == [raised |-> exception, value |-> EmptyDict]

\* httpx: raise_for_status() raises for every status that is not 2xx.
raise_for_status(response) ==
    IF response.status \in 200..299 THEN None ELSE "HTTPStatusError"

\* Variant: a successful result is built from the status line, not the body.
_process_response_from_status(response, response_model) ==
    IF response.kind = "dict" /\ raise_for_status(response) = None
    THEN [raised |-> None,
          value |-> ModelDict(response_model, [message |-> "OK"]),
          log |-> <<Entry("info", "Response",
                          log_sensitive_data_remover(response.json), "")>>]
    ELSE [raised |-> "HTTPStatusError", value |-> EmptyDict, log |-> <<>>]

\* [raised, value, log]: what _process_response raises or returns, and what
\* it logs on the way.  A body is JSON text of a dict, JSON text of a list,
\* or text that is not JSON.
_process_response(response, response_model) ==
    IF response.kind = "text"
    THEN [raised |-> IF raise_for_status(response) # None
                     THEN raise_for_status(response) ELSE "ValueError",
          value |-> EmptyDict,
          log |-> <<Entry("error", "JSON decode error", EmptyDict, "ValueError"),
                    Entry("error", "Response content", EmptyDict, response.text)>>]
    ELSE IF response.kind = "list"
    THEN [raised |-> "AttributeError", value |-> EmptyDict, log |-> <<>>]
    ELSE LET safe_response_data == log_sensitive_data_remover(response.json)
             log == <<Entry("info", "Response", safe_response_data, "")>>
         IN IF raise_for_status(response) # None
            THEN [raised |-> raise_for_status(response), value |-> EmptyDict,
                  log |-> log]
            ELSE IF FieldErrors(response_model, response.json) # {}
            THEN [raised |-> "ValidationError", value |-> EmptyDict, log |-> log]
            ELSE [raised |-> None,
                  value |-> ModelDict(response_model, response.json), log |-> log]

\* call_api.wrapper up to the suspension at client.post: [task, aclose], the
\* call's state and whether the finally clause has run.  A closed client
\* raises RuntimeError from post without sending anything.
call_api_post(tk, self, op, request, headers) ==
    LET url == str(self.base_url) \o "/" \o Binding(op).path
        payload == request
        safe_payload == log_sensitive_data_remover(payload)
        logged == Append(tk.log, Entry("info", "Request", safe_payload, ""))
    IN IF self.client_is_closed
       THEN [task |-> [tk EXCEPT !.pc = "done", !.payload = payload,
                          !.log = Append(logged,
                              Entry("error", "API call failed", EmptyDict, "RuntimeError")),
                          !.outcome = Raise("RuntimeError")],
             aclose |-> TRUE]
       ELSE [task |-> [tk EXCEPT !.pc = "posting", !.payload = payload,
                          !.log = logged,
                          !.steps = Append(@, "post"),
                          !.sent = Append(@, [url |-> url, json |-> payload,
                                              headers |-> headers])],
             aclose |-> FALSE]

\* Variant: a failed post is sent once more before the failure is raised.
call_api_except_retry(tk, exception) ==
    IF Len(tk.sent) < 2
    THEN [task |-> [tk EXCEPT !.sent = Append(@, @[1])], aclose |-> FALSE]
    ELSE [task |-> [tk EXCEPT !.pc = "done",
                       !.log = Append(@, Entry("error", "API call failed",
                                               EmptyDict, exception)),
                       !.outcome = Raise(exception)],
          aclose |-> TRUE]

\* call_api.wrapper from the moment client.post raises `exception`.
call_api_except(tk, exception) ==
    [task |-> [tk EXCEPT !.pc = "done",
                  !.log = Append(@, Entry("error", "API call failed", EmptyDict, exception)),
                  !.outcome = Raise(exception)],
     aclose |-> TRUE]

\* Variant: the client is left open when the call succeeds.
call_api_response_keep_open(tk, op, response) ==
    LET r == _process_response(response, Binding(op).response_model)
        tk1 == [tk EXCEPT !.pc = "done", !.response = response,
                   !.steps = Append(@, "process"), !.log = @ \o r.log]
    IN IF r.raised # None
       THEN [task |-> [tk1 EXCEPT
                         !.log = Append(@, Entry("error", "API call failed",
                                                 EmptyDict, r.raised)),
                         !.outcome = Raise(r.raised)],
             aclose |-> TRUE]
       ELSE [task |-> [tk1 EXCEPT !.outcome = Return(r.value)], aclose |-> FALSE]

\* call_api.wrapper from the moment client.post returns `response`.
call_api_response(tk, op, response) ==
    LET r == _process_response(response, Binding(op).response_model)
        tk1 == [tk EXCEPT !.pc = "done", !.response = response,
                   !.steps = Append(@, "process"), !.log = @ \o r.log]
    IN IF r.raised # None
       THEN [task |-> [tk1 EXCEPT
                         !.log = Append(@, Entry("error", "API call failed",
                                                 EmptyDict, r.raised)),
                         !.outcome = Raise(r.raised)],
             aclose |-> TRUE]
       ELSE [task |-> [tk1 EXCEPT !.outcome = Return(r.value)], aclose |-> TRUE]

\* await cognito_service.<op>(request): the auth decorator, then call_api.
service_op(tk, self, op, request) ==
    call_api_post([tk EXCEPT !.steps = Append(@, "delegate")],
                  self, op, request, Headers(self, op))

(***************************************************************************)
(* Text as a tuple of characters, for the header parsing                   *)
(***************************************************************************)
UpperCase == <<"A","B","C","D","E","F","G","H","I","J","K","L","M",
               "N","O","P","Q","R","S","T","U","V","W","X","Y","Z">>
LowerCase == <<"a","b","c","d","e","f","g","h","i","j","k","l","m",
               "n","o","p","q","r","s","t","u","v","w","x","y","z">>
lower_char(c) ==
    IF \E i \in DOMAIN UpperCase : UpperCase[i] = c
    THEN LowerCase[CHOOSE i \in DOMAIN UpperCase : UpperCase[i] = c]
    ELSE c
lower(s) == [i \in 1..Len(s) |-> lower_char(s[i])]
startswith(s, prefix) ==
    Len(s) >= Len(prefix) /\ SubSeq(s, 1, Len(prefix)) = prefix
strip(s) ==
    LET kept == {i \in 1..Len(s) : s[i] # " "}
    IN IF kept = {} THEN <<>>
       ELSE SubSeq(s, CHOOSE i \in kept : \A j \in kept : i <= j,
                      CHOOSE i \in kept : \A j \in kept : j <= i)

(***************************************************************************)
(* The FastAPI dependencies (api/dependencies/auth.py)                     *)
(***************************************************************************)
\* async def validate_access_token: the value the coroutine would return.
validate_access_token(access_token) == TRUE

\* Calling an async function without await yields a coroutine object, and
\* bool() of a coroutine object is True whatever it would return.
coroutine(result) == [coroutine |-> result]
bool(object) == TRUE

\* Variant: the credentials are passed on without the check for None.
get_access_token_unchecked(credentials) == Return(credentials)

get_access_token(credentials) ==
    IF credentials = None THEN Raise("UnauthorizedException")
    ELSE IF ~bool(coroutine(validate_access_token(credentials)))
         THEN Raise("UnauthorizedException")
    ELSE Return(credentials)

\* A missing header and an empty one are both <<>>: `not refresh_header`.
BearerPrefix == <<"b", "e", "a", "r", "e", "r", " ">>

\* Variant: the prefix is compared as written, without lower().
get_refresh_token_case_sensitive(refresh_header) ==
    IF refresh_header = <<>> \/ ~startswith(refresh_header, BearerPrefix)
    THEN Raise("UnauthorizedException")
    ELSE Return(strip(SubSeq(refresh_header, 8, Len(refresh_header))))

get_refresh_token(refresh_header) ==
    IF refresh_header = <<>> \/ ~startswith(lower(refresh_header), BearerPrefix)
    THEN Raise("UnauthorizedException")
    ELSE Return(strip(SubSeq(refresh_header, 8, Len(refresh_header))))

\* The object a resolve() result denotes: a cached one, or one constructed
\* by implementation() with no arguments.
Object(instance) ==
    IF instance.id \in DOMAIN cognito THEN cognito[instance.id]
    ELSE CognitoService(None, None)

\* Both return the resolve() result together with the service object as the
\* dependency leaves it.
get_basic_cognito_service ==
    LET r == resolve("CognitoServiceInterface")
    IN [cognito_service |-> Object(r.value)] @@ r
get_authenticated_cognito_service(access_token) ==
    LET r == resolve("CognitoServiceInterface")
    IN [cognito_service |-> set_access_token(Object(r.value), access_token)] @@ r

(***************************************************************************)
(* The calls in progress                                                   *)
(***************************************************************************)
NoResponse == [status |-> 0, kind |-> "none", json |-> EmptyDict, text |-> ""]
IdleTask ==
    [pc |-> "idle", via |-> "none", op |-> "none",
     credentials |-> None,   \* what the caller sent as Authorization credentials
     token |-> None,         \* what get_access_token returned
     refresh_header |-> <<>>,  \* request.headers.get("Refresh-Token")
     args |-> EmptyDict,     \* the arguments the caller supplied
     svc |-> 0,              \* the CognitoService the call holds
     again |-> FALSE,        \* the object had served an operation before
     payload |-> EmptyDict,  \* request.dict()
     sent |-> <<>>,          \* the upstream posts of this call
     response |-> NoResponse,
     log |-> <<>>,           \* what this call handed to the logger
     steps |-> <<>>,         \* the stages the call went through
     outcome |-> Raise("none")]

NotApplied == [function |-> None]

Put(id, self, aclose) ==
    [i \in DOMAIN cognito \cup {id} |->
        IF i = id THEN [self EXCEPT !.client_is_closed = @ \/ aclose]
        ELSE cognito[i]]

RegistryUnchanged == UNCHANGED <<_services, _factories, resolved, arrived, applied>>

\* A resolver whose dependencies raised: the body never runs.
Rejected(t, tk, exception) ==
    /\ task' = [task EXCEPT ![t] = [tk EXCEPT !.pc = "done",
                                       !.outcome = Raise(exception)]]
    /\ started' = started + 1
    /\ UNCHANGED <<_scopes, created, cognito>>
    /\ RegistryUnchanged

\* Variant: the service is called with whatever the arguments are.
resolver_body_unvalidated(tk, self, op, kwargs) ==
    service_op([tk EXCEPT !.args = kwargs, !.steps = Append(@, "validate")],
               self, op, ModelDict(Binding(op).request_model, kwargs))

\* The body shared by the nine resolvers: request = Model(**kwargs), then
\* return await cognito_service.<op>(request).
resolver_body(tk, self, op, kwargs) ==
    LET schema == Binding(op).request_model
        tk1 == [tk EXCEPT !.args = kwargs, !.steps = Append(@, "validate")]
    IN IF FieldErrors(schema, kwargs) # {}
       THEN [task |-> [tk1 EXCEPT !.pc = "done", !.outcome = Raise("ValidationError")],
             aclose |-> FALSE]
       ELSE service_op(tk1, self, op, ModelDict(schema, kwargs))

\* A resolver whose service dependency returned (or raised) `dep`.
Resolver(t, tk, dep, kwargs) ==
    IF dep.raised # None THEN
        /\ task' = [task EXCEPT ![t] = [tk EXCEPT !.pc = "done",
                                           !.outcome = Raise(dep.raised)]]
        /\ started' = started + 1
        /\ UNCHANGED <<_scopes, created, cognito>>
        /\ RegistryUnchanged
    ELSE
        LET self == dep.cognito_service
            r == resolver_body([tk EXCEPT !.svc = dep.value.id], self, tk.op, kwargs)
        IN /\ task' = [task EXCEPT ![t] = r.task]
           /\ cognito' = Put(dep.value.id, self, r.aclose)
           /\ _scopes' = dep.scopes
           /\ created' = dep.created
           /\ started' = started + 1
           /\ RegistryUnchanged

\* A finished call takes no further part in the program: its state is what
\* the caller is handed.  It is handed over (retire) before the event loop
\* runs another call, so calls overlap only while they wait for the upstream.
Quiet(t) == \A u \in Tasks \ {t} : task[u].pc # "done"

Begin(t) == task[t].pc = "idle" /\ started < MaxCalls /\ Quiet(t)
Inbound(op, kwargs) ==
    [IdleTask EXCEPT !.pc = "running", !.via = "resolver", !.op = op,
        !.args = kwargs]

\* A resolver with Depends(get_basic_cognito_service).
BasicResolver(t, op, kwargs) ==
    Resolver(t, Inbound(op, kwargs), get_basic_cognito_service, kwargs)

\* A resolver with Depends(get_authenticated_cognito_service), which in turn
\* has Depends(get_access_token).
AuthenticatedResolver(t, op, credentials, kwargs) ==
    LET tk == [Inbound(op, kwargs) EXCEPT !.credentials = credentials,
                  !.steps = <<"get_access_token">>]
        access_token == get_access_token(credentials)
    IN IF access_token.raised # None
       THEN Rejected(t, tk, access_token.raised)
       ELSE Resolver(t, [tk EXCEPT !.token = access_token.value],
                     get_authenticated_cognito_service(access_token.value), kwargs)

(***************************************************************************)
(* Inputs                                                                  *)
(***************************************************************************)
Usernames == {"", "alice", X51}
Passwords == {"12345", "secret", X129}
Codes == {"12345", "123456", "12345678901"}
Emails == {<<"a", "@", "b", ".", "i", "o">>, <<"a", ".", "b", ".", "i", "o">>}
PhoneNumbers == {None, "+123456789012345"}
Credentials == {None, "AT-1", "AT-expired"}
RefreshHeaders ==
    {<<>>,
     <<"B", "a", "s", "i", "c", " ", "R", "T">>,
     <<"B", "e", "a", "r", "e", "r">>,
     <<"B", "e", "a", "r", "e", "r", " ">>,
     <<"B", "E", "A", "R", "E", "R", " ", "R", "t">>,
     <<"b", "e", "a", "r", "e", "r", " ", " ", "R", "T", " ">>}
AttributeLists ==
    {[type |-> "list", items |-> <<>>],
     [type |-> "list", items |-> <<[name |-> "email", value |-> "a@b.io"]>>]}

\* What the upstream may answer.
Json(status, body) == [status |-> status, kind |-> "dict", json |-> body, text |-> ""]
Text(status, text) == [status |-> status, kind |-> "text", json |-> EmptyDict, text |-> text]
TokenBody == [access_token |-> "AT-9", refresh_token |-> "RT-9", id_token |-> "ID-9"]
UntypedTokenBody == [access_token |-> "", token_type |-> "mac"]
MessageBody == [message |-> "ok"]
EmptyMessageBody == [message |-> ""]
ErrorBody == [message |-> "denied", code |-> "NotAuthorizedException"]
Responses ==
    {Json(200, TokenBody), Json(200, UntypedTokenBody),
     Json(200, MessageBody), Json(200, EmptyMessageBody),
     Json(400, ErrorBody), Json(503, ErrorBody),
     [status |-> 200, kind |-> "list", json |-> EmptyDict, text |-> ""],
     [status |-> 503, kind |-> "list", json |-> EmptyDict, text |-> ""],
     Text(200, "<html>RT-9</html>"), Text(503, "Service Unavailable")}
TransportErrors == {"ConnectError", "ReadTimeout"}

(***************************************************************************)
(* The nine resolvers (api/graphql/resolvers/user_resolvers.py)            *)
(***************************************************************************)
resolve_login(t, username, password) ==
    /\ Begin(t)
    /\ BasicResolver(t, "login", [username |-> username, password |-> password])

\* given_name and family_name are left at their default, None.
resolve_sign_up(t, username, password, email, phone_number) ==
    /\ Begin(t)
    /\ BasicResolver(t, "sign_up",
        [username |-> username, password |-> password, email |-> email,
         phone_number |-> phone_number, given_name |-> None, family_name |-> None])

resolve_confirm_sign_up(t, username, confirmation_code) ==
    /\ Begin(t)
    /\ BasicResolver(t, "confirm_sign_up",
        [username |-> username, confirmation_code |-> confirmation_code])

resolve_resend_confirmation_code(t, username) ==
    /\ Begin(t)
    /\ BasicResolver(t, "resend_confirmation_code", [username |-> username])

\* Depends(get_refresh_token) comes before Depends(get_basic_cognito_service).
resolve_refresh_token(t, refresh_header) ==
    /\ Begin(t)
    /\ LET refresh_token == get_refresh_token(refresh_header)
           tk == [Inbound("refresh_token", EmptyDict) EXCEPT
                     !.refresh_header = refresh_header,
                     !.steps = <<"get_refresh_token">>]
       IN IF refresh_token.raised # None
          THEN Rejected(t, tk, refresh_token.raised)
          ELSE Resolver(t, tk, get_basic_cognito_service,
                        [refresh_token |-> refresh_token.value])

resolve_change_password(t, credentials, previous_password, proposed_password) ==
    /\ Begin(t)
    /\ AuthenticatedResolver(t, "change_password", credentials,
        [previous_password |-> previous_password,
         proposed_password |-> proposed_password])

resolve_forgot_password(t, username) ==
    /\ Begin(t)
    /\ BasicResolver(t, "forgot_password", [username |-> username])

resolve_confirm_forgot_password(t, username, confirmation_code, new_password) ==
    /\ Begin(t)
    /\ BasicResolver(t, "confirm_forgot_password",
        [username |-> username, confirmation_code |-> confirmation_code,
         new_password |-> new_password])

resolve_update_user_attributes(t, credentials, attributes) ==
    /\ Begin(t)
    /\ AuthenticatedResolver(t, "update_user_attributes", credentials,
        [attributes |-> attributes])

(***************************************************************************)
(* CognitoService used as a class: constructed with its fields, given a    *)
(* token, called with a request model that carries every declared field.   *)
(***************************************************************************)
BaseUrl == "https://idp"
ClientCredentials == "Y2xpZW50OnNlY3JldA=="

RequestOf(op) ==
    CASE op = "login" -> [username |-> "alice", password |-> "secret"]
      [] op = "sign_up" ->
           [username |-> "alice", password |-> "secret",
            email |-> <<"a", "@", "b", ".", "i", "o">>,
            phone_number |-> None, given_name |-> None, family_name |-> None]
      [] op = "confirm_sign_up" -> [username |-> "alice", confirmation_code |-> "123456"]
      [] op = "resend_confirmation_code" -> [username |-> "alice"]
      [] op = "refresh_token" -> [refresh_token |-> <<"R", "T">>]
      [] op = "change_password" ->
           [access_token |-> "AT-1", previous_password |-> "secret",
            proposed_password |-> "secret2"]
      [] op = "forgot_password" -> [username |-> "alice"]
      [] op = "confirm_forgot_password" ->
           [username |-> "alice", confirmation_code |-> "123456",
            new_password |-> "secret2"]
      [] op = "update_user_attributes" ->
           [access_token |-> "AT-1",
            attributes |-> [type |-> "dict", items |-> <<>>]]

\* svc = CognitoService(base_url=..., basic_credentials=...);
\* svc.set_access_token(access_token) for a bearer operation; await svc.<op>(request)
service_call(t, op, access_token) ==
    /\ Begin(t)
    /\ FieldErrors(Binding(op).request_model, RequestOf(op)) = {}
    /\ LET id == created + 1
           new == CognitoService(BaseUrl, ClientCredentials)
           self == IF Binding(op).auth = "bearer"
                   THEN set_access_token(new, access_token) ELSE new
           tk == [IdleTask EXCEPT !.pc = "running", !.via = "service", !.op = op,
                     !.svc = id, !.args = RequestOf(op),
                     !.token = self.access_token]
           r == service_op(tk, self, op, ModelDict(Binding(op).request_model, RequestOf(op)))
       IN /\ task' = [task EXCEPT ![t] = r.task]
          /\ cognito' = Put(id, self, r.aclose)
          /\ created' = id
          /\ started' = started + 1
          /\ UNCHANGED _scopes
          /\ RegistryUnchanged

\* A further operation awaited on the object a finished call still holds.
service_call_again(t, op) ==
    /\ task[t].pc = "done" /\ task[t].via = "service" /\ started < MaxCalls
    /\ LET self == cognito[task[t].svc]
           tk == [IdleTask EXCEPT !.pc = "running", !.via = "service", !.op = op,
                     !.svc = task[t].svc, !.again = TRUE, !.args = RequestOf(op),
                     !.token = self.access_token]
           r == service_op(tk, self, op, ModelDict(Binding(op).request_model, RequestOf(op)))
       IN /\ task' = [task EXCEPT ![t] = r.task]
          /\ cognito' = Put(task[t].svc, self, r.aclose)
          /\ started' = started + 1
          /\ UNCHANGED <<_scopes, created>>
          /\ RegistryUnchanged

(***************************************************************************)
(* The upstream answers; shutdown; the end of a call                       *)
(***************************************************************************)
Resume(t, r) ==
    /\ task' = [task EXCEPT ![t] = r.task]
    /\ cognito' = Put(task[t].svc, cognito[task[t].svc], r.aclose)
    /\ UNCHANGED <<_scopes, created, started>>
    /\ RegistryUnchanged

post_raises(t, exception) ==
    /\ task[t].pc = "posting" /\ Quiet(t)
    /\ Resume(t, call_api_except(task[t], exception))

post_returns(t, response) ==
    /\ task[t].pc = "posting" /\ Quiet(t)
    /\ Resume(t, call_api_response(task[t], task[t].op, response))

\* CognitoService.close(): `if self.client is not None: await self.client.aclose()`,
\* called by the holder of the object once its call is over.  A second
\* close() changes nothing.
close(t) ==
    /\ task[t].pc = "done" /\ task[t].svc # 0
    /\ ~cognito[task[t].svc].close_called
    /\ cognito' = [cognito EXCEPT ![task[t].svc] =
                      [@ EXCEPT !.client_is_closed = TRUE, !.close_called = TRUE]]
    /\ UNCHANGED <<_scopes, created, started, task>>
    /\ RegistryUnchanged

\* The call is over: its state and the object it held are dropped.
retire(t) ==
    /\ task[t].pc = "done"
    /\ task' = [task EXCEPT ![t] = IdleTask]
    /\ cognito' = [i \in DOMAIN cognito \ {task[t].svc} |-> cognito[i]]
    /\ UNCHANGED <<_scopes, created, started>>
    /\ RegistryUnchanged

(***************************************************************************)
(* The specification of the gateway                                        *)
(***************************************************************************)
Init ==
    /\ _services = ProductionServices
    /\ _factories = EmptyDict
    /\ _scopes = EmptyDict
    /\ created = 0
    /\ resolved = <<>>
    /\ arrived = [t \in Tasks |-> None]
    /\ applied = NotApplied
    /\ cognito = EmptyDict
    /\ task = [t \in Tasks |-> IdleTask]
    /\ started = 0

Next ==
    \E t \in Tasks :
        \/ \E u \in Usernames, p \in Passwords : resolve_login(t, u, p)
        \/ \E u \in Usernames, p \in Passwords, e \in Emails, n \in PhoneNumbers :
              resolve_sign_up(t, u, p, e, n)
        \/ \E u \in Usernames, c \in Codes : resolve_confirm_sign_up(t, u, c)
        \/ \E u \in Usernames : resolve_resend_confirmation_code(t, u)
        \/ \E h \in RefreshHeaders : resolve_refresh_token(t, h)
        \/ \E c \in Credentials, p \in Passwords, q \in Passwords :
              resolve_change_password(t, c, p, q)
        \/ \E u \in Usernames : resolve_forgot_password(t, u)
        \/ \E u \in Usernames, c \in Codes, p \in Passwords :
              resolve_confirm_forgot_password(t, u, c, p)
        \/ \E c \in Credentials, a \in AttributeLists :
              resolve_update_user_attributes(t, c, a)
        \/ \E op \in Operations, a \in Credentials \ {None} : service_call(t, op, a)
        \/ \E op \in Operations : service_call_again(t, op)
        \/ \E e \in TransportErrors : post_raises(t, e)
        \/ \E r \in Responses : post_returns(t, r)
        \/ close(t)
        \/ retire(t)

Spec == Init /\ [][Next]_vars

(***************************************************************************)
(* The specification of the registry: DependencyInjector on its own        *)
(***************************************************************************)
Interfaces == {"CognitoServiceInterface", "OtherInterface"}
Omitted == "no scope argument"
Implementations == {"CognitoService"}
OtherImplementations == {"OtherService"}
Factories == {"make_service"}
NotAType == "an object that is no type"
NotCallable == "an object that is not callable"

GatewayUnchanged == UNCHANGED <<cognito, task, started, applied>>

\* register(interface, implementation, scope=ServiceScope.TRANSIENT); Omitted
\* stands for a call that passes no scope.

\* Variant: registering an interface drops the instance cached for it.
register_evicting(interface, implementation, scope_argument) ==
    /\ LET scope == IF scope_argument = Omitted THEN TRANSIENT ELSE scope_argument
       IN IF interface = NotAType \/ implementation = NotAType
          THEN UNCHANGED <<_services, _scopes>>
          ELSE /\ _services' = [i \in DOMAIN _services \cup {interface} |->
                                   IF i = interface THEN <<implementation, scope>>
                                   ELSE _services[i]]
               /\ _scopes' = [i \in DOMAIN _scopes \ {interface} |-> _scopes[i]]
    /\ UNCHANGED <<_factories, created, resolved, arrived>>
    /\ GatewayUnchanged

register(interface, implementation, scope_argument) ==
    /\ LET scope == IF scope_argument = Omitted THEN TRANSIENT ELSE scope_argument
       IN IF interface = NotAType \/ implementation = NotAType
          THEN UNCHANGED _services                    \* raise TypeError
          ELSE _services' = [i \in DOMAIN _services \cup {interface} |->
                                IF i = interface THEN <<implementation, scope>>
                                ELSE _services[i]]
    /\ UNCHANGED <<_factories, _scopes, created, resolved, arrived>>
    /\ GatewayUnchanged

register_factory(interface, factory) ==
    /\ IF factory = NotCallable
       THEN UNCHANGED _factories                      \* raise TypeError
       ELSE _factories' = [i \in DOMAIN _factories \cup {interface} |->
                              IF i = interface THEN factory ELSE _factories[i]]
    /\ UNCHANGED <<_services, _scopes, created, resolved, arrived>>
    /\ GatewayUnchanged

\* A call on whose behalf `interface` is to be resolved has been accepted: its
\* coroutine is scheduled on the event loop and has not run resolve() yet.
\* Calls are named in the order they first arrive.
FirstCall == "t1"
arrive(t, interface) ==
    /\ arrived[t] = None
    /\ t = FirstCall \/ arrived[FirstCall] # None
         \/ \E i \in DOMAIN resolved : resolved[i].call = FirstCall
    /\ Len(resolved) + Cardinality({u \in Tasks : arrived[u] # None}) < MaxResolves
    /\ arrived' = [arrived EXCEPT ![t] = interface]
    /\ UNCHANGED <<_services, _factories, _scopes, created, resolved>>
    /\ GatewayUnchanged

\* injector.resolve(interface) made by call t.  resolve() is a plain function
\* with no await in it: on the event loop it runs from its first line to its
\* return before any other call runs.  Its result is kept for inspection
\* together with the registration it met: whether the interface was
\* registered, with which implementation, scope and factory, whether an
\* object was constructed, and which other calls were waiting to resolve the
\* same interface.
resolve_call(t) ==
    /\ arrived[t] # None
    /\ Len(resolved) < MaxResolves
    /\ LET interface == arrived[t]
           r == resolve(interface)
       IN /\ resolved' = Append(resolved,
                [call |-> t, interface |-> interface,
                 raised |-> r.raised, value |-> r.value,
                 registered |-> interface \in DOMAIN _services \cup DOMAIN _factories,
                 scope |-> IF interface \in DOMAIN _services
                           THEN _services[interface][2] ELSE None,
                 implementation |-> IF interface \in DOMAIN _services
                                    THEN _services[interface][1] ELSE None,
                 factory |-> IF interface \in DOMAIN _factories
                             THEN _factories[interface] ELSE None,
                 made |-> r.created # created,
                 waiting |-> {u \in Tasks \ {t} : arrived[u] = interface},
                 cleared |-> FALSE])
          /\ _scopes' = r.scopes
          /\ created' = r.created
    /\ arrived' = [arrived EXCEPT ![t] = None]
    /\ UNCHANGED <<_services, _factories>>
    /\ GatewayUnchanged

\* Variant: clear() leaves the cached instances in place.
clear_keep_scopes ==
    /\ _services' = EmptyDict
    /\ _factories' = EmptyDict
    /\ resolved' = [i \in 1..Len(resolved) |-> [resolved[i] EXCEPT !.cleared = TRUE]]
    /\ UNCHANGED <<_scopes, created, arrived>>
    /\ GatewayUnchanged

\* clear().  The results handed out so far are marked as belonging to
\* registrations that no longer exist.
clear ==
    /\ _services' = EmptyDict
    /\ _factories' = EmptyDict
    /\ _scopes' = EmptyDict
    /\ resolved' = [i \in 1..Len(resolved) |-> [resolved[i] EXCEPT !.cleared = TRUE]]
    /\ UNCHANGED <<created, arrived>>
    /\ GatewayUnchanged

InitRegistry ==
    /\ _services = EmptyDict
    /\ _factories = EmptyDict
    /\ _scopes = EmptyDict
    /\ created = 0
    /\ resolved = <<>>
    /\ arrived = [t \in Tasks |-> None]
    /\ applied = NotApplied
    /\ cognito = EmptyDict
    /\ task = [t \in Tasks |-> IdleTask]
    /\ started = 0

NextRegistry ==
    \/ \E i \in Interfaces, c \in Implementations, s \in ServiceScope \cup {Omitted} :
          register(i, c, s)
    \/ \E i \in Interfaces : register(i, NotAType, Omitted)
    \/ \E t \in Tasks, i \in Interfaces : arrive(t, i)
    \/ \E t \in Tasks : resolve_call(t)
    \/ clear

SpecRegistry == InitRegistry /\ [][NextRegistry]_vars

(***************************************************************************)
(* The specification of re-registration: one caller registers one          *)
(* interface again and again, with either implementation, any scope and a  *)
(* factory, and clears the injector in between                             *)
(***************************************************************************)
InitReregistration == InitRegistry

NextReregistration ==
    \/ \E c \in Implementations \cup OtherImplementations, s \in ServiceScope :
          register("CognitoServiceInterface", c, s)
    \/ \E f \in Factories \cup {NotCallable} :
          register_factory("CognitoServiceInterface", f)
    \/ \E i \in Interfaces : arrive(FirstCall, i)
    \/ resolve_call(FirstCall)
    \/ clear

SpecReregistration == InitReregistration /\ [][NextReregistration]_vars

(***************************************************************************)
(* The specification of the functions called on their own: the exception   *)
(* constructor and the redaction of logged dictionaries                    *)
(***************************************************************************)
ExceptionClasses == DOMAIN error_descriptor
Descriptors == {ErrorCodes[n] : n \in DOMAIN ErrorCodes} \cup {NoDescriptor}
SupportCodes == {None, "COG-REQ-0001", "COG-INT-0004"}

\* The values a logged dictionary may hold under each key; attributes is a
\* dictionary itself.
Sample ==
    [password |-> "secret", access_token |-> "AT-1", refresh_token |-> "RT-1",
     id_token |-> "ID-1", new_password |-> "secret2", previous_password |-> "secret",
     proposed_password |-> "secret3", username |-> "alice",
     attributes |-> [password |-> "nested", id_token |-> "ID-2"]]
Dictionaries == {[k \in keys |-> Sample[k]] : keys \in SUBSET DOMAIN Sample}

OnlyApplied == UNCHANGED <<_services, _factories, _scopes, created, resolved, arrived,
                           cognito, task, started>>

\* cls(error_descriptor, support_code) for a class cls of exceptions.py.
raise_AppException(class, error_descriptor_argument, support_code) ==
    /\ applied' = [function |-> "AppException", class |-> class,
                   error_descriptor |-> error_descriptor_argument,
                   support_code |-> support_code,
                   result |-> AppException_init(class, error_descriptor_argument,
                                                support_code)]
    /\ OnlyApplied

\* CognitoService.log_sensitive_data_remover(data): the dict comprehension
\* builds a new dictionary and leaves `data` as it was.
call_log_sensitive_data_remover(data) ==
    /\ applied' = [function |-> "log_sensitive_data_remover", data |-> data,
                   data_after |-> data,
                   result |-> log_sensitive_data_remover(data)]
    /\ OnlyApplied

InitFunctions == InitRegistry

NextFunctions ==
    \/ \E c \in ExceptionClasses, d \in Descriptors, s \in SupportCodes :
          raise_AppException(c, d, s)
    \/ \E data \in Dictionaries : call_log_sensitive_data_remover(data)

SpecFunctions == InitFunctions /\ [][NextFunctions]_vars

(***************************************************************************)
(* Properties                                                              *)
(***************************************************************************)
Active == {t \in Tasks : task[t].pc # "idle"}
Inbounds == {t \in Active : task[t].via = "resolver"}
Finished == {t \in Tasks : task[t].pc = "done"}
BearerOperations == {"change_password", "update_user_attributes"}
PasswordKeys == {"password", "new_password", "previous_password", "proposed_password"}
Has(d, k) == k \in DOMAIN d
Chars(e) == {e[i] : i \in 1..Len(e)}

\* The arguments break one of the constraints the request schema states.
ViolatesSchema(args) ==
    \/ Has(args, "username") /\ (Len(args["username"]) < 1 \/ Len(args["username"]) > 50)
    \/ \E k \in PasswordKeys :
          Has(args, k) /\ (Len(args[k]) < 6 \/ Len(args[k]) > 128)
    \/ /\ Has(args, "confirmation_code")
       /\ (Len(args["confirmation_code"]) < 6 \/ Len(args["confirmation_code"]) > 10)
    \/ Has(args, "email") /\ "@" \notin Chars(args["email"])
    \/ Has(args, "refresh_token") /\ Len(args["refresh_token"]) = 0

SuppliedFieldsOK(op, args) ==
    \A f \in DOMAIN args \cap DOMAIN Binding(op).request_model :
        FieldOK(Binding(op).request_model[f], args[f])

\* C2: a call whose supplied arguments satisfy the field constraints (and
\* whose dependencies passed) is validated, then delegated to the gateway
\* client exactly once, and its result comes from that delegation.
C2_ValidCallIsDelegated ==
    \A t \in Inbounds :
        (/\ "validate" \in Chars(task[t].steps)
         /\ SuppliedFieldsOK(task[t].op, task[t].args)) =>
            /\ Len(task[t].steps) >= 2
            /\ SubSeq(task[t].steps, Len(task[t].steps) - 1, Len(task[t].steps))
                  \in {<<"validate", "delegate">>, <<"delegate", "post">>,
                       <<"post", "process">>}
            /\ Len(task[t].sent) = 1

AuthorizationOf(t, i) == task[t].sent[i].headers["Authorization"]

\* C3: every upstream request carries the Authorization header of its
\* operation: Basic with the service's client credentials for the seven
\* unauthenticated operations, Bearer with the access token of the call for
\* change_password and update_user_attributes.
C3_AuthorizationHeaderFixedPerOperation ==
    \A t \in Active : \A i \in DOMAIN task[t].sent :
        /\ Has(task[t].sent[i].headers, "Authorization")
        /\ AuthorizationOf(t, i) =
              IF task[t].op \in BearerOperations
              THEN "Bearer " \o task[t].token
              ELSE "Basic " \o cognito[task[t].svc].basic_credentials

C3_Witness ==
    /\ \E t \in Active :
          /\ task[t].op = "change_password" /\ Len(task[t].sent) = 1
          /\ AuthorizationOf(t, 1) = "Bearer AT-1"
    /\ \E t \in Active :
          /\ task[t].op = "sign_up" /\ Len(task[t].sent) = 1
          /\ AuthorizationOf(t, 1) = "Basic Y2xpZW50OnNlY3JldA=="

\* C4: an inbound change_password or update_user_attributes call runs the
\* credential check first; without credentials it ends with
\* UnauthorizedException and no upstream post, and it posts only with the
\* token the check returned.  The other seven operations run no credential
\* check.
C4_CredentialCheckBeforeUpstream ==
    \A t \in Inbounds :
        IF task[t].op \in BearerOperations
        THEN /\ task[t].steps[1] = "get_access_token"
             /\ task[t].credentials = None =>
                   /\ task[t].pc = "done"
                   /\ task[t].outcome.raised = "UnauthorizedException"
                   /\ task[t].sent = <<>>
             /\ task[t].sent # <<>> =>
                   task[t].token # None /\ task[t].token = task[t].credentials
        ELSE "get_access_token" \notin Chars(task[t].steps)

C4_Witness ==
    \E t, u \in Inbounds :
        /\ task[t].op = "change_password" /\ task[t].credentials = None
        /\ task[t].outcome.raised = "UnauthorizedException" /\ task[t].sent = <<>>
        /\ task[u].op = "login" /\ task[u].pc = "posting"
        /\ task[u].steps = <<"validate", "delegate", "post">>

\* "AT-expired" stands for a token whose exp lies in the past.
Expired(token) == token = "AT-expired"

\* C5: an expired token is rejected: get_access_token raises
\* UnauthorizedException instead of returning it, and nothing is posted.
C5_ExpiredTokenRejected ==
    \A t \in Inbounds :
        Expired(task[t].credentials) =>
            /\ task[t].token = None
            /\ task[t].pc = "done"
            /\ task[t].outcome.raised = "UnauthorizedException"
            /\ task[t].sent = <<>>

\* C6: the client of a CognitoService is closed only by close().
C6_ClientClosedOnlyByClose ==
    \A s \in DOMAIN cognito :
        cognito[s].client_is_closed => cognito[s].close_called

\* C7: a sign_up or change_password call whose post fails with a transport
\* error has posted exactly once and ends with that one failure.
C7_TransportFailurePostedOnce ==
    \A t \in Active :
        /\ task[t].op \in {"sign_up", "change_password"} => Len(task[t].sent) <= 1
        /\ (/\ task[t].op \in {"sign_up", "change_password"}
            /\ task[t].pc = "done"
            /\ task[t].outcome.raised \in TransportErrors) =>
              /\ Len(task[t].sent) = 1
              /\ Cardinality({i \in DOMAIN task[t].log :
                                 task[t].log[i].msg = "API call failed"}) = 1

C7_Witness ==
    \E t \in Finished, u \in Active :
        /\ task[t].op = "sign_up" /\ task[t].outcome.raised = "ConnectError"
        /\ Len(task[t].sent) = 1
        /\ task[u].op = "change_password" /\ task[u].pc = "posting"
        /\ Len(task[u].sent) = 1

Masked(shown, payload) ==
    /\ DOMAIN shown = DOMAIN payload
    /\ \A k \in {"password", "access_token", "refresh_token", "id_token"} :
          Has(payload, k) => shown[k] = "***"

\* C8: the logged form of a request or response payload has '***' under
\* each of the keys password, access_token, refresh_token and id_token.
C8_SensitiveKeysMasked ==
    \A t \in Active : \A i \in DOMAIN task[t].log :
        /\ task[t].log[i].msg = "Request" => Masked(task[t].log[i].data, task[t].payload)
        /\ task[t].log[i].msg = "Response" =>
              Masked(task[t].log[i].data, task[t].response.json)

C8_Witness ==
    \E t \in Finished :
        /\ task[t].op = "login" /\ task[t].response = Json(200, TokenBody)
        /\ \E i \in DOMAIN task[t].log :
              /\ task[t].log[i].msg = "Request"
              /\ task[t].log[i].data["password"] = "***"
        /\ \E i \in DOMAIN task[t].log :
              /\ task[t].log[i].msg = "Response"
              /\ task[t].log[i].data["id_token"] = "***"
              /\ task[t].log[i].data["refresh_token"] = "***"

\* C9: no log record carries the body of a response as it was received.
C9_NoRawResponseLogged ==
    \A t \in Active : \A i \in DOMAIN task[t].log :
        task[t].response.text # "" => task[t].log[i].text # task[t].response.text

Live(scope) ==
    {i \in DOMAIN resolved : ~resolved[i].cleared /\ resolved[i].scope = scope}

\* C11: singleton lifetime.  register() constructs nothing (every object was
\* constructed by a resolve); since the last clear(), the first resolve of a
\* singleton interface constructs one instance, every later one returns that
\* same instance from the cache and constructs nothing, so at most one
\* instance per singleton interface is constructed.
C11_SingletonCreatedOnce ==
    /\ created = Cardinality({i \in DOMAIN resolved : resolved[i].made})
    /\ \A i \in Live(SINGLETON) :
          LET e == resolved[i]
              earlier == {j \in Live(SINGLETON) :
                             j < i /\ resolved[j].interface = e.interface}
          IN /\ e.raised = None
             /\ e.made <=> earlier = {}
             /\ \A j \in earlier : resolved[j].value = e.value
             /\ e.interface \in DOMAIN _scopes /\ _scopes[e.interface] = e.value

C11_Witness ==
    /\ Len(resolved) = 2
    /\ Live(SINGLETON) = {1, 2}
    /\ resolved[1].interface = resolved[2].interface
    /\ resolved[1].made /\ ~resolved[2].made
    /\ resolved[1].value = resolved[2].value
    /\ created = 1

\* C12: transient lifetime (the scope register() uses when none is passed).
\* Every resolve of a transient interface constructs a new instance, distinct
\* from the result of every other resolve, and the instance is not in the
\* instance cache.
C12_TransientAlwaysNew ==
    \A i \in DOMAIN resolved :
        resolved[i].scope = TRANSIENT =>
            /\ resolved[i].raised = None /\ resolved[i].made
            /\ \A j \in DOMAIN resolved \ {i} : resolved[j].value # resolved[i].value
            /\ \A k \in DOMAIN _scopes : _scopes[k] # resolved[i].value

C12_Witness ==
    /\ Len(resolved) = 2
    /\ Live(TRANSIENT) = {1, 2}
    /\ resolved[1].interface = resolved[2].interface
    /\ resolved[1].call = resolved[2].call
    /\ resolved[1].value # resolved[2].value
    /\ _scopes = EmptyDict

\* C13: scoped lifetime.  Two resolves of a scoped interface made within the
\* same call return the same instance, and resolves made in different calls
\* return different instances.
C13_ScopedOnePerCall ==
    \A i, j \in Live(SCOPED) :
        (i # j /\ resolved[i].interface = resolved[j].interface) =>
            (resolved[i].call = resolved[j].call
                <=> resolved[i].value = resolved[j].value)

\* C14: concurrent resolves of a singleton interface.  Whatever calls were
\* waiting to resolve the interface when the cache was populated, a call
\* that resolves it afterwards constructs nothing and receives the instance
\* the first one received: exactly one instance is constructed.
C14_ConcurrentSingletonResolvesShareOne ==
    \A i, j \in Live(SINGLETON) :
        (/\ i < j
         /\ resolved[i].interface = resolved[j].interface
         /\ resolved[i].call # resolved[j].call) =>
            /\ ~resolved[j].made
            /\ resolved[j].value = resolved[i].value
            /\ Cardinality({k \in Live(SINGLETON) :
                   resolved[k].interface = resolved[i].interface
                   /\ resolved[k].made}) = 1

\* Both calls had arrived before the cache was populated.
C14_Witness ==
    /\ Len(resolved) = 2
    /\ Live(SINGLETON) = {1, 2}
    /\ resolved[1].made
    /\ resolved[1].waiting = {resolved[2].call}
    /\ resolved[2].call # resolved[1].call
    /\ resolved[2].interface = resolved[1].interface
    /\ resolved[2].value = resolved[1].value

\* C15: an access token belongs to one call.  Every upstream request of a
\* bearer operation carries the token of the call that issued it; a service
\* object that has a token set is held by exactly one call, whose token it
\* is; and no object kept by the injector beyond a call carries a token.
C15_TokenConfinedToItsCall ==
    /\ \A t \in Active : \A i \in DOMAIN task[t].sent :
          task[t].op \in BearerOperations =>
              AuthorizationOf(t, i) = "Bearer " \o task[t].token
    /\ \A id \in DOMAIN cognito :
          cognito[id].access_token # None =>
              LET holders == {t \in Active : task[t].svc = id}
              IN /\ Cardinality(holders) = 1
                 /\ \A t \in holders : task[t].token = cognito[id].access_token
    /\ \A i \in DOMAIN _scopes :
          _scopes[i].id \in DOMAIN cognito =>
              cognito[_scopes[i].id].access_token = None

\* Two calls with different tokens overlap: one waits for the upstream with
\* its own token in the header, the other has attached its token to its own
\* service object.
C15_Witness ==
    \E t, u \in Active :
        /\ task[t].op = "update_user_attributes" /\ task[t].pc = "posting"
        /\ task[t].token = "AT-1" /\ AuthorizationOf(t, 1) = "Bearer AT-1"
        /\ task[u].via = "resolver" /\ task[u].op = "change_password"
        /\ task[u].token = "AT-expired"
        /\ task[u].svc # task[t].svc /\ task[u].svc \in DOMAIN cognito
        /\ cognito[task[u].svc].access_token = "AT-expired"
        /\ cognito[task[t].svc].access_token = "AT-1"

\* The calls whose upstream request was sent and got no response (the post
\* raised: connection failure or timeout) or got a 5xx response.
UpstreamUnavailable ==
    {t \in Finished :
        /\ Len(task[t].sent) > 0
        /\ \/ task[t].response = NoResponse
           \/ task[t].response.status \in 500..599}

\* The calls that failed: rejected before the upstream call, or answered by
\* the upstream with no response, an error status, or a body that is not
\* the JSON object of the response model.
Failing ==
    {t \in Finished :
        \/ Len(task[t].sent) = 0
        \/ task[t].response = NoResponse
        \/ task[t].response.status \notin 200..299
        \/ task[t].response.kind # "dict"
        \/ FieldErrors(Binding(task[t].op).response_model, task[t].response.json) # {}}

\* C16: every failing call ends with one structured outcome: it raises (no
\* success value is returned), and what it raises is an AppException, whose
\* detail carries code, message and support_code.
C16_FailureIsStructured ==
    \A t \in Failing :
        /\ task[t].outcome.raised # None
        /\ task[t].outcome.value = EmptyDict
        /\ IsAppException(task[t].outcome.raised)

\* C17: a call whose upstream request ended in a transport failure, a
\* timeout or a 5xx status raises ServiceUnavailableException: code 1002,
\* HTTP 503.
C17_UpstreamFailureIsServiceUnavailable ==
    \A t \in UpstreamUnavailable :
        /\ task[t].outcome.raised = "ServiceUnavailableException"
        /\ AppException(task[t].outcome.raised, None).detail.code = "1002"
        /\ AppException(task[t].outcome.raised, None).status_code = "503"

Succeeded == {t \in Finished : task[t].outcome.raised = None}
TokenOperations == {"login", "refresh_token"}
MessageOperations ==
    {"confirm_sign_up", "resend_confirmation_code", "change_password",
     "forgot_password", "confirm_forgot_password", "update_user_attributes"}

\* C18: every successful result of login or refresh_token has a non-empty
\* access_token and token_type "Bearer", whatever body the upstream sent.
C18_TokenResultIsBearer ==
    \A t \in Succeeded :
        task[t].op \in TokenOperations =>
            /\ task[t].outcome.value.access_token \notin {None, ""}
            /\ task[t].outcome.value.token_type = "Bearer"

\* C19: a message-only operation that was posted and answered with HTTP 200
\* and the JSON object {"message": m} returns its response model with
\* message = m.
C19_MessageIsReturned ==
    \A t \in Finished :
        (/\ task[t].op \in MessageOperations
         /\ task[t].response.kind = "dict" /\ task[t].response.status = 200
         /\ DOMAIN task[t].response.json = {"message"}) =>
            /\ task[t].outcome.raised = None
            /\ task[t].outcome.value = [message |-> task[t].response.json.message]

C19_Witness ==
    /\ \E t \in Inbounds :
          /\ task[t].op = "confirm_forgot_password" /\ task[t].pc = "done"
          /\ task[t].args = [username |-> "alice", confirmation_code |-> "123456",
                             new_password |-> "secret"]
          /\ task[t].response = Json(200, MessageBody)
          /\ task[t].outcome = Return([message |-> "ok"])
    /\ \E t \in Active :
          /\ task[t].op = "update_user_attributes" /\ task[t].pc = "posting"

\* The Refresh-Token header h carries token tk after the prefix: h is seven
\* characters that read "bearer " in any case, then spaces, tk, spaces, and
\* tk neither begins nor ends with a space.
Spaces(h, from, to) == \A i \in from..to : h[i] = " "
Carries(h, tk) ==
    /\ Len(h) >= 7
    /\ lower(SubSeq(h, 1, 7)) = BearerPrefix
    /\ \E a, b \in 0..Len(h) :
          /\ 7 + a + b <= Len(h)
          /\ Spaces(h, 8, 7 + a) /\ Spaces(h, Len(h) - b + 1, Len(h))
          /\ SubSeq(h, 8 + a, Len(h) - b) = tk
    /\ tk # <<>> => tk[1] # " " /\ tk[Len(tk)] # " "
Prefixed(h) == Len(h) >= 7 /\ lower(SubSeq(h, 1, 7)) = BearerPrefix

\* C20: a refresh call whose Refresh-Token header is absent or does not
\* start with "bearer " in any case ends with UnauthorizedException and no
\* post; otherwise the refresh token is the header text after the prefix,
\* stripped; an empty one ends with ValidationError and no post, any other
\* is what the one upstream request carries.
C20_RefreshTokenFromHeader ==
    \A t \in Inbounds :
        task[t].op = "refresh_token" =>
            LET h == task[t].refresh_header
            IN IF ~Prefixed(h)
               THEN /\ task[t].pc = "done" /\ task[t].sent = <<>>
                    /\ task[t].outcome.raised = "UnauthorizedException"
               ELSE /\ Has(task[t].args, "refresh_token")
                    /\ Carries(h, task[t].args.refresh_token)
                    /\ IF task[t].args.refresh_token = <<>>
                       THEN /\ task[t].pc = "done" /\ task[t].sent = <<>>
                            /\ task[t].outcome.raised = "ValidationError"
                       ELSE /\ Len(task[t].sent) = 1
                            /\ task[t].sent[1].json.refresh_token =
                                  task[t].args.refresh_token

C20_Witness ==
    \E t, u \in Inbounds :
        /\ task[t].refresh_header = <<"B", "e", "a", "r", "e", "r", " ">>
        /\ task[t].pc = "done" /\ task[t].sent = <<>>
        /\ task[t].outcome.raised = "ValidationError"
        /\ task[u].refresh_header = <<"B", "E", "A", "R", "E", "R", " ", "R", "t">>
        /\ task[u].pc = "posting"
        /\ task[u].sent[1].json.refresh_token = <<"R", "t">>

Answered == {t \in Finished : task[t].response # NoResponse}
Success == 200..299

\* C21: _process_response returns a model only for a success status with a
\* JSON body.  For an error status it raises HTTPStatusError, after logging
\* the redacted body when the body is JSON; for a success status with a body
\* that is not JSON it raises the decode error, ValueError.
C21_ModelOnlyFromSuccessJson ==
    \A t \in Answered :
        LET response == task[t].response
            outcome == task[t].outcome
        IN /\ outcome.raised = None =>
                 response.status \in Success /\ response.kind # "text"
           /\ response.status \notin Success =>
                 /\ outcome.raised = "HTTPStatusError"
                 /\ response.kind = "dict" =>
                       \E i \in DOMAIN task[t].log :
                           /\ task[t].log[i].msg = "Response"
                           /\ task[t].log[i].data =
                                 log_sensitive_data_remover(response.json)
           /\ (response.status \in Success /\ response.kind = "text") =>
                 outcome.raised = "ValueError"

Raised_AppException == applied.function = "AppException"

\* C22: an AppException built without a descriptor uses the descriptor of
\* its class, one built with a descriptor uses that one; its status is the
\* descriptor's http_status and its detail is exactly code, message and
\* support_code, the latter None unless one was passed.
C22_ExceptionCarriesItsDescriptor ==
    Raised_AppException =>
        LET used == IF applied.error_descriptor = NoDescriptor
                    THEN error_descriptor[applied.class]
                    ELSE applied.error_descriptor
        IN /\ applied.result.status_code = used.http_status
           /\ DOMAIN applied.result.detail = {"code", "message", "support_code"}
           /\ applied.result.detail.code = used.code
           /\ applied.result.detail.message = used.message
           /\ applied.result.detail.support_code = applied.support_code
           /\ (applied.class = "UnauthorizedException"
               /\ applied.error_descriptor = NoDescriptor) =>
                  /\ applied.result.detail.code = "2007"
                  /\ applied.result.status_code = "401"

\* UnauthorizedException(ErrorCodes.TOKEN_EXPIRED, support_code=...).
C22_Witness ==
    /\ Raised_AppException
    /\ applied.class = "UnauthorizedException"
    /\ applied.error_descriptor = ErrorCodes.TOKEN_EXPIRED
    /\ applied.support_code = "COG-INT-0004"
    /\ applied.result.detail =
          [code |-> "2005", message |-> "The session has expired. Please log in again.",
           support_code |-> "COG-INT-0004"]
    /\ applied.result.status_code = "401"

Redacted == applied.function = "log_sensitive_data_remover"
TopLevelSensitive == {"password", "access_token", "refresh_token", "id_token"}

\* C27: log_sensitive_data_remover returns a dictionary with the keys of its
\* input in which only the values under password, access_token,
\* refresh_token and id_token differ from the input; every other value,
\* new_password, previous_password, proposed_password and a dictionary with
\* sensitive keys inside it included, is the input's; the input is left as
\* it was; and applying it to its result changes nothing.
C27_RedactionFrame ==
    Redacted =>
        /\ DOMAIN applied.result = DOMAIN applied.data
        /\ applied.data_after = applied.data
        /\ \A k \in DOMAIN applied.data \ TopLevelSensitive :
              applied.result[k] = applied.data[k]
        /\ \A k \in DOMAIN applied.data \cap TopLevelSensitive :
              applied.result[k] = "***"
        /\ log_sensitive_data_remover(applied.result) = applied.result

C27_Witness ==
    /\ Redacted
    /\ DOMAIN applied.data =
          {"password", "refresh_token", "new_password", "previous_password",
           "proposed_password", "attributes"}
    /\ applied.result.password = "***" /\ applied.result.refresh_token = "***"
    /\ applied.result.new_password = "secret2"
    /\ applied.result.previous_password = "secret"
    /\ applied.result.proposed_password = "secret3"
    /\ applied.result.attributes = [password |-> "nested", id_token |-> "ID-2"]

Cleared == {i \in DOMAIN resolved : resolved[i].cleared}

\* A step that empties one of the three dictionaries or turns a result into
\* one of an earlier registration: a clear().
Emptied ==
    \/ _services # EmptyDict /\ _services' = EmptyDict
    \/ _factories # EmptyDict /\ _factories' = EmptyDict
    \/ _scopes # EmptyDict /\ _scopes' = EmptyDict
    \/ \E i \in DOMAIN resolved : ~resolved[i].cleared /\ resolved'[i].cleared

NothingRegistered ==
    /\ _services = EmptyDict /\ _factories = EmptyDict /\ _scopes = EmptyDict
    /\ \A i \in Interfaces : resolve(i).raised = "KeyError"

\* C23: clear() empties _services, _factories and _scopes together, so that
\* right after it resolve raises KeyError for every interface; and a
\* singleton resolved under a later registration is never an instance that
\* was handed out before the clear().
C23_ClearEmptiesEverything ==
    /\ [](\A i \in Live(SINGLETON) : \A j \in Cleared :
             resolved[i].value # resolved[j].value)
    /\ [][Emptied => NothingRegistered']_vars

C23_Witness ==
    /\ Len(resolved) = 2
    /\ Cleared = {1} /\ Live(SINGLETON) = {2}
    /\ resolved[1].scope = SINGLETON /\ resolved[1].made
    /\ resolved[2].interface = resolved[1].interface
    /\ resolved[2].implementation = resolved[1].implementation
    /\ resolved[2].made /\ resolved[2].value # resolved[1].value

\* C24: register() leaves the cached instance in place.  Since the last
\* clear(), every resolve of an interface registered as singleton returns
\* the instance its first singleton resolve created, whatever implementation
\* is registered by then; a resolve under a transient or scoped registration
\* returns a new instance of the implementation registered by then.
C24_ReregistrationKeepsCachedInstance ==
    /\ \A i, j \in Live(SINGLETON) :
          (i < j /\ resolved[i].interface = resolved[j].interface) =>
              /\ resolved[j].value = resolved[i].value
              /\ resolved[i].made => resolved[j].value.class = resolved[i].implementation
    /\ \A i \in Live(TRANSIENT) \cup Live(SCOPED) :
          /\ resolved[i].made
          /\ resolved[i].value.class = resolved[i].implementation

\* Registered singleton with one class, resolved, registered singleton with
\* the other class, resolved again: the instance of the first class.
C24_Witness ==
    /\ Len(resolved) = 2 /\ Live(SINGLETON) = {1, 2}
    /\ resolved[1].implementation = "CognitoService" /\ resolved[1].made
    /\ resolved[2].implementation = "OtherService" /\ ~resolved[2].made
    /\ resolved[2].value = resolved[1].value
    /\ resolved[2].value.class = "CognitoService"

\* C25: an interface with a service registration is resolved from it, never
\* from its factory, in whichever order the two were registered; a factory
\* product is returned only for an interface with no service registration.
C25_ServiceBeforeFactory ==
    \A i \in DOMAIN resolved :
        LET e == resolved[i]
        IN /\ e.implementation # None =>
                 /\ e.raised = None
                 /\ e.value.class \in Implementations \cup OtherImplementations
                 /\ e.made => e.value.class = e.implementation
           /\ (e.implementation = None /\ e.factory # None) =>
                 /\ e.raised = None /\ e.made
                 /\ e.value.class = e.factory

\* The factory was registered first and used, then the service was
\* registered and used although the factory is still there.
C25_Witness ==
    /\ Len(resolved) = 2 /\ Cleared = {}
    /\ resolved[1].implementation = None /\ resolved[1].factory = "make_service"
    /\ resolved[1].value.class = "make_service"
    /\ resolved[2].implementation = "OtherService" /\ resolved[2].factory = "make_service"
    /\ resolved[2].value.class = "OtherService"
    /\ resolved[2].interface = resolved[1].interface

Entered(t) == \E i \in DOMAIN task[t].steps : task[t].steps[i] = "delegate"

\* C26: every API call that was entered leaves the client of its object
\* closed, however it ended; a further operation on the same object fails
\* on the closed client without sending anything; and an inbound call has
\* an object of its own, so it never meets a client closed by another call.
C26_ClientClosedAfterEveryCall ==
    /\ \A t \in Finished : Entered(t) => cognito[task[t].svc].client_is_closed
    /\ \A t \in Active :
          task[t].again =>
              /\ task[t].pc = "done" /\ task[t].sent = <<>>
              /\ task[t].outcome.raised = "RuntimeError"
    /\ \A t \in Inbounds :
          /\ task[t].outcome.raised # "RuntimeError"
          /\ task[t].pc = "posting" => ~cognito[task[t].svc].client_is_closed
          /\ task[t].svc # 0 =>
                \A u \in Active \ {t} : task[u].svc # task[t].svc

\* An object that served a call is used for a second operation, with no
\* close() in between: the operation fails on the closed client.
C26_Witness ==
    \E t \in Finished :
        /\ task[t].again /\ task[t].op = "login"
        /\ task[t].outcome.raised = "RuntimeError" /\ task[t].sent = <<>>
        /\ cognito[task[t].svc].client_is_closed
        /\ ~cognito[task[t].svc].close_called

====
